---- MODULE Spec2Model ----
(***************************************************************************)
(* Model of curtkr.c: the mouse-trail overlay.  The program state is the   *)
(* circular buffer trail_points / trail_head, the run flag keep_running,   *)
(* the position of main() and the contents of the Cairo surface after the  *)
(* last draw_trail().  The X server's pointer (position and button mask)   *)
(* is the environment that XQueryPointer samples.                          *)
(***************************************************************************)
EXTENDS Integers, Sequences, FiniteSets

VARIABLES
    pc,             \* position of main()
    trail_points,   \* TrailPoint trail_points[TRAIL_LENGTH]
    trail_head,     \* int trail_head
    keep_running,   \* volatile sig_atomic_t keep_running
    result,         \* Bool result of the last XQueryPointer (-1 before the first)
    exit_code,      \* return value of main(), -1 while it runs
    click_through,  \* whether the XFixes input shape was installed
    surface,        \* discs on the Cairo surface, in paint order
    ptr,            \* X server: the pointer position and button/modifier mask
                    \*   the next successful XQueryPointer returns
    motion,         \* X server: how the pointer changes from one reading to the next
    clock,          \* X server: number of readings returned
    history,        \* history: every sample XQueryPointer returned successfully, in order
    iters,          \* history: number of completed loop iterations
    fails,          \* history: number of failed XQueryPointer calls
    setup_failures, \* history: the setup steps that failed
    iter_start,     \* history: buffer and head at the top of the current iteration
    sig_at,         \* history: pc at which SIGINT first cleared keep_running
    delay           \* history: microseconds slept since keep_running was cleared

vars == <<pc, trail_points, trail_head, keep_running, result, exit_code,
          click_through, surface, ptr, motion, clock, history, iters, fails,
          setup_failures, iter_start, sig_at, delay>>

(***************************************************************************)
(* Configuration (#define) and X11 button masks                            *)
(***************************************************************************)
TRAIL_LENGTH == 50
UPDATE_INTERVAL == 16666
BACKOFF_INTERVAL == 100000

Button1Mask == 256
Button2Mask == 512
Button3Mask == 1024
Button4Mask == 2048
Button5Mask == 4096

\* Colours in tenths: TRAIL_R/G/B = 0.2, 0.5, 1.0 and CLICK_R/G/B = 1.0, 0.0, 0.0
TRAIL_RGB == <<2, 5, 10>>
CLICK_RGB == <<10, 0, 0>>

(***************************************************************************)
(* Bounds of the model                                                     *)
(***************************************************************************)
MaxExtraIters == 3   \* iterations beyond TRAIL_LENGTH
MaxFails == 2        \* failed pointer queries in one run

MaxIters == TRAIL_LENGTH + MaxExtraIters

Slots == 0 .. (TRAIL_LENGTH - 1)

(***************************************************************************)
(* C integer helpers                                                       *)
(***************************************************************************)
\* C's % truncates toward zero
CMod(a, b) == IF a >= 0 THEN a % b ELSE 0 - ((0 - a) % b)

RECURSIVE BitAnd(_, _)
BitAnd(a, b) ==
    IF a = 0 \/ b = 0 THEN 0
    ELSE (a % 2) * (b % 2) + 2 * BitAnd(a \div 2, b \div 2)

RECURSIVE BitOr(_, _)
BitOr(a, b) ==
    IF a = 0 THEN b
    ELSE IF b = 0 THEN a
    ELSE (IF a % 2 = 1 \/ b % 2 = 1 THEN 1 ELSE 0) + 2 * BitOr(a \div 2, b \div 2)

\* Button1Mask | Button2Mask | Button3Mask | Button4Mask | Button5Mask
AnyButtonMask ==
    BitOr(BitOr(BitOr(BitOr(Button1Mask, Button2Mask), Button3Mask), Button4Mask), Button5Mask)

(***************************************************************************)
(* The ring buffer                                                         *)
(***************************************************************************)
ZeroPoint == [x |-> 0, y |-> 0, valid |-> 0, clicked |-> 0]

\* memset(trail_points, 0, sizeof(trail_points))
ZeroTrail == [s \in Slots |-> ZeroPoint]

IsClicked_ModifiersToo(mask) == IF mask # 0 THEN 1 ELSE 0

\* mask_return & (Button1Mask | ... | Button5Mask)
IsClicked(mask) == IF BitAnd(mask, AnyButtonMask) # 0 THEN 1 ELSE 0

StorePoint_RejectNegative(tp, head, x, y, mask) ==
    IF x < 0 \/ y < 0 THEN tp
    ELSE [tp EXCEPT ![head] = [x |-> x, y |-> y, valid |-> 1, clicked |-> IsClicked(mask)]]

\* trail_points[trail_head].x = ...; .y = ...; .valid = 1; .clicked = ...
StorePoint(tp, head, x, y, mask) ==
    [tp EXCEPT ![head] = [x |-> x, y |-> y, valid |-> 1, clicked |-> IsClicked(mask)]]

MoveHead_OffByOne(head) == CMod(head + 1, TRAIL_LENGTH + 1)

\* trail_head = (trail_head + 1) % TRAIL_LENGTH
MoveHead(head) == CMod(head + 1, TRAIL_LENGTH)

(***************************************************************************)
(* draw_trail                                                              *)
(***************************************************************************)
CurrentIndex_FromHead(head, i) == CMod(head - i + TRAIL_LENGTH, TRAIL_LENGTH)

\* int current_index = (trail_head - 1 - i + TRAIL_LENGTH) % TRAIL_LENGTH
CurrentIndex(head, i) == CMod(head - 1 - i + TRAIL_LENGTH, TRAIL_LENGTH)

Culled_TenPercent(i) == 10 * (TRAIL_LENGTH - i) < TRAIL_LENGTH

\* alpha = 1.0 - (double)i / TRAIL_LENGTH; if (alpha < 0.05) continue;
\* alpha is (TRAIL_LENGTH - i) / TRAIL_LENGTH, so alpha < 1/20 is
\* 20 * (TRAIL_LENGTH - i) < TRAIL_LENGTH.  For TRAIL_LENGTH = 50 the values
\* nearest the threshold are 0.06 and 0.04, far beyond double rounding.
Culled(i) == 20 * (TRAIL_LENGTH - i) < TRAIL_LENGTH

Disc_AlwaysTrail(p, i) ==
    [x |-> p.x, y |-> p.y, age |-> i, rgb |-> TRAIL_RGB,
     alpha |-> 8 * (TRAIL_LENGTH - i)]

\* cairo_set_source_rgba(...); cairo_arc(...); cairo_fill(cr);
\* alpha is kept as the numerator over 10 * TRAIL_LENGTH:
\* alpha * 0.9 = 9 * (TRAIL_LENGTH - i) / (10 * TRAIL_LENGTH)
Disc(p, i) ==
    IF p.clicked # 0
    THEN [x |-> p.x, y |-> p.y, age |-> i, rgb |-> CLICK_RGB,
          alpha |-> 9 * (TRAIL_LENGTH - i)]
    ELSE [x |-> p.x, y |-> p.y, age |-> i, rgb |-> TRAIL_RGB,
          alpha |-> 8 * (TRAIL_LENGTH - i)]

\* The slots the loop of draw_trail does not skip as invalid, by age i
RECURSIVE IterateFrom(_, _, _)
IterateFrom(tp, head, i) ==
    IF i >= TRAIL_LENGTH THEN <<>>
    ELSE LET p == tp[CurrentIndex(head, i)]
         IN  IF p.valid = 0 THEN IterateFrom(tp, head, i + 1)
             ELSE <<[x |-> p.x, y |-> p.y, clicked |-> p.clicked, age |-> i]>>
                  \o IterateFrom(tp, head, i + 1)

IterateByAge(tp, head) == IterateFrom(tp, head, 0)

\* The body of the for loop of draw_trail, from index i on
RECURSIVE DrawFrom(_, _, _)
DrawFrom(tp, head, i) ==
    IF i >= TRAIL_LENGTH THEN <<>>
    ELSE LET p == tp[CurrentIndex(head, i)]
         IN  IF p.valid = 0 THEN DrawFrom(tp, head, i + 1)
             ELSE IF Culled(i) THEN DrawFrom(tp, head, i + 1)
             ELSE <<Disc(p, i)>> \o DrawFrom(tp, head, i + 1)

\* draw_trail: the surface is cleared, then the discs are painted
DrawTrail(tp, head) == DrawFrom(tp, head, 0)

(***************************************************************************)
(* The X server's pointer                                                  *)
(***************************************************************************)
StartPositions == {[x |-> 10, y |-> 10], [x |-> 0 - 30, y |-> 5000]}

\* Change of position per reading, and the masks the readings cycle through
\* (1 = ShiftMask, 2 = LockMask, 4 = ControlMask, 8 = Mod1Mask)
Motions ==
    { [dx |-> 10, dy |-> 10, masks |-> <<0, Button1Mask, 0>>],
      [dx |-> 0 - 7, dy |-> 3,
       masks |-> <<1, Button3Mask + 4, 8 + 2, Button5Mask, Button2Mask + Button4Mask>>] }

\* The pointer by the time of the next successful query
PointerAfter(p, m, c) ==
    [x |-> p.x + m.dx, y |-> p.y + m.dy,
     mask |-> m.masks[((c + 1) % Len(m.masks)) + 1]]

(***************************************************************************)
(* Initial state: the process image before main() runs                     *)
(***************************************************************************)
Init ==
    /\ pc = "start"
    /\ trail_points = ZeroTrail
    /\ trail_head = 0
    /\ keep_running = 1
    /\ result = 0 - 1
    /\ exit_code = 0 - 1
    /\ click_through = FALSE
    /\ surface = <<>>
    /\ \E s \in StartPositions, m \in Motions :
          /\ motion = m
          /\ ptr = [x |-> s.x, y |-> s.y, mask |-> m.masks[1]]
    /\ clock = 0
    /\ history = <<>>
    /\ iters = 0
    /\ fails = 0
    /\ setup_failures = {}
    /\ iter_start = [tp |-> ZeroTrail, head |-> 0]
    /\ sig_at = "none"
    /\ delay = 0

buffer_vars == <<trail_points, trail_head, surface, history>>
env_vars == <<ptr, motion, clock>>
loop_hist == <<iters, fails, iter_start, delay>>

(***************************************************************************)
(* Setup phase of main()                                                   *)
(***************************************************************************)
\* memset(trail_points, ...); signal(SIGINT, handle_sigint);
Startup ==
    /\ pc = "start"
    /\ trail_points' = ZeroTrail
    /\ pc' = "open_display"
    /\ UNCHANGED <<trail_head, keep_running, result, exit_code, click_through,
                   surface, history, setup_failures, sig_at>>
    /\ UNCHANGED env_vars
    /\ UNCHANGED loop_hist

\* display = XOpenDisplay(NULL) succeeded; screen, root window and size are read
OpenDisplayOk ==
    /\ pc = "open_display"
    /\ pc' = "find_visual"
    /\ UNCHANGED <<keep_running, result, exit_code, click_through, setup_failures, sig_at>>
    /\ UNCHANGED buffer_vars
    /\ UNCHANGED env_vars
    /\ UNCHANGED loop_hist

\* if (!display) { ...; return 1; }
OpenDisplayFail ==
    /\ pc = "open_display"
    /\ pc' = "done"
    /\ exit_code' = 1
    /\ setup_failures' = setup_failures \cup {"display"}
    /\ UNCHANGED <<keep_running, result, click_through, sig_at>>
    /\ UNCHANGED buffer_vars
    /\ UNCHANGED env_vars
    /\ UNCHANGED loop_hist

\* a 32-bit visual was found; colormap, window and EWMH properties follow
FindVisualOk ==
    /\ pc = "find_visual"
    /\ pc' = "xfixes"
    /\ UNCHANGED <<keep_running, result, exit_code, click_through, setup_failures, sig_at>>
    /\ UNCHANGED buffer_vars
    /\ UNCHANGED env_vars
    /\ UNCHANGED loop_hist

\* if (!vinfo_list || nitems == 0) { ...; XCloseDisplay(display); return 1; }
FindVisualFail ==
    /\ pc = "find_visual"
    /\ pc' = "done"
    /\ exit_code' = 1
    /\ setup_failures' = setup_failures \cup {"visual"}
    /\ UNCHANGED <<keep_running, result, click_through, sig_at>>
    /\ UNCHANGED buffer_vars
    /\ UNCHANGED env_vars
    /\ UNCHANGED loop_hist

\* XFixesQueryExtension succeeded: the input shape is set to the empty region
XFixesOk ==
    /\ pc = "xfixes"
    /\ pc' = "cairo_surface"
    /\ click_through' = TRUE
    /\ UNCHANGED <<keep_running, result, exit_code, setup_failures, sig_at>>
    /\ UNCHANGED buffer_vars
    /\ UNCHANGED env_vars
    /\ UNCHANGED loop_hist

\* else { fprintf(stderr, "Warning: XFixes extension not available. ...") }
XFixesUnavailable ==
    /\ pc = "xfixes"
    /\ pc' = "cairo_surface"
    /\ setup_failures' = setup_failures \cup {"xfixes"}
    /\ UNCHANGED <<keep_running, result, exit_code, click_through, sig_at>>
    /\ UNCHANGED buffer_vars
    /\ UNCHANGED env_vars
    /\ UNCHANGED loop_hist

\* XMapWindow; XFlush; cairo_xlib_surface_create succeeded
CairoSurfaceOk ==
    /\ pc = "cairo_surface"
    /\ pc' = "cairo_context"
    /\ UNCHANGED <<keep_running, result, exit_code, click_through, setup_failures, sig_at>>
    /\ UNCHANGED buffer_vars
    /\ UNCHANGED env_vars
    /\ UNCHANGED loop_hist

\* if (!cairo_surface || cairo_surface_status(...) != CAIRO_STATUS_SUCCESS) { ...; return 1; }
CairoSurfaceFail ==
    /\ pc = "cairo_surface"
    /\ pc' = "done"
    /\ exit_code' = 1
    /\ setup_failures' = setup_failures \cup {"surface"}
    /\ UNCHANGED <<keep_running, result, click_through, sig_at>>
    /\ UNCHANGED buffer_vars
    /\ UNCHANGED env_vars
    /\ UNCHANGED loop_hist

\* cairo_create succeeded; XFree(vinfo_list); the start-up lines are printed
CairoContextOk ==
    /\ pc = "cairo_context"
    /\ pc' = "loop"
    /\ UNCHANGED <<keep_running, result, exit_code, click_through, setup_failures, sig_at>>
    /\ UNCHANGED buffer_vars
    /\ UNCHANGED env_vars
    /\ UNCHANGED loop_hist

CairoContextFail_Continue ==
    /\ pc = "cairo_context"
    /\ pc' = "loop"
    /\ setup_failures' = setup_failures \cup {"context"}
    /\ UNCHANGED <<keep_running, result, exit_code, click_through, sig_at>>
    /\ UNCHANGED buffer_vars
    /\ UNCHANGED env_vars
    /\ UNCHANGED loop_hist

\* if (!cr || cairo_status(cr) != CAIRO_STATUS_SUCCESS) { ...; return 1; }
CairoContextFail ==
    /\ pc = "cairo_context"
    /\ pc' = "done"
    /\ exit_code' = 1
    /\ setup_failures' = setup_failures \cup {"context"}
    /\ UNCHANGED <<keep_running, result, click_through, sig_at>>
    /\ UNCHANGED buffer_vars
    /\ UNCHANGED env_vars
    /\ UNCHANGED loop_hist

(***************************************************************************)
(* Main loop                                                               *)
(***************************************************************************)
\* while (keep_running) : the flag is set, the body starts
LoopEnter ==
    /\ pc = "loop"
    /\ keep_running # 0
    /\ iters < MaxIters
    /\ pc' = "query"
    /\ iter_start' = [tp |-> trail_points, head |-> trail_head]
    /\ UNCHANGED <<keep_running, result, exit_code, click_through, setup_failures, sig_at>>
    /\ UNCHANGED buffer_vars
    /\ UNCHANGED env_vars
    /\ UNCHANGED <<iters, fails, delay>>

\* while (keep_running) : the flag is clear, the loop ends
LoopExit ==
    /\ pc = "loop"
    /\ keep_running = 0
    /\ pc' = "cleanup"
    /\ UNCHANGED <<keep_running, result, exit_code, click_through, setup_failures, sig_at>>
    /\ UNCHANGED buffer_vars
    /\ UNCHANGED env_vars
    /\ UNCHANGED loop_hist

\* if (result) { store the point; move the head; draw_trail; flush }
QueryOk ==
    /\ pc = "query"
    /\ result' = 1
    /\ trail_points' = StorePoint(trail_points, trail_head, ptr.x, ptr.y, ptr.mask)
    /\ trail_head' = MoveHead(trail_head)
    /\ surface' = DrawTrail(trail_points', trail_head')
    /\ history' = Append(history, ptr)
    /\ ptr' = PointerAfter(ptr, motion, clock)
    /\ clock' = clock + 1
    /\ pc' = "sleep"
    /\ UNCHANGED <<keep_running, exit_code, click_through, setup_failures, sig_at, motion>>
    /\ UNCHANGED loop_hist

QueryFail_StillStores ==
    /\ pc = "query"
    /\ fails < MaxFails
    /\ result' = 0
    /\ fails' = fails + 1
    /\ trail_points' = StorePoint(trail_points, trail_head, ptr.x, ptr.y, ptr.mask)
    /\ trail_head' = MoveHead(trail_head)
    /\ pc' = "backoff"
    /\ UNCHANGED <<keep_running, exit_code, click_through, setup_failures, sig_at>>
    /\ UNCHANGED <<surface, history>>
    /\ UNCHANGED env_vars
    /\ UNCHANGED <<iters, iter_start, delay>>

\* else { "Query Failed!" is printed; usleep(100000) follows }
QueryFail ==
    /\ pc = "query"
    /\ fails < MaxFails
    /\ result' = 0
    /\ fails' = fails + 1
    /\ pc' = "backoff"
    /\ UNCHANGED <<keep_running, exit_code, click_through, setup_failures, sig_at>>
    /\ UNCHANGED buffer_vars
    /\ UNCHANGED env_vars
    /\ UNCHANGED <<iters, iter_start, delay>>

\* usleep(100000) in the failure branch
Backoff ==
    /\ pc = "backoff"
    /\ pc' = "sleep"
    /\ delay' = IF keep_running = 0 THEN delay + BACKOFF_INTERVAL ELSE delay
    /\ UNCHANGED <<keep_running, result, exit_code, click_through, setup_failures,
                   sig_at, iters, fails, iter_start>>
    /\ UNCHANGED buffer_vars
    /\ UNCHANGED env_vars

\* usleep(UPDATE_INTERVAL) at the end of the body
Sleep ==
    /\ pc = "sleep"
    /\ pc' = "loop"
    /\ iters' = iters + 1
    /\ delay' = IF keep_running = 0 THEN delay + UPDATE_INTERVAL ELSE delay
    /\ UNCHANGED <<keep_running, result, exit_code, click_through, setup_failures,
                   sig_at, fails, iter_start>>
    /\ UNCHANGED buffer_vars
    /\ UNCHANGED env_vars

\* cairo_destroy ... XCloseDisplay; printf("Exiting.\n"); return 0;
Cleanup ==
    /\ pc = "cleanup"
    /\ pc' = "done"
    /\ exit_code' = 0
    /\ UNCHANGED <<keep_running, result, click_through, setup_failures, sig_at>>
    /\ UNCHANGED buffer_vars
    /\ UNCHANGED env_vars
    /\ UNCHANGED loop_hist

Sigint_NoClear ==
    /\ pc \notin {"start", "done"}
    /\ sig_at = "none"
    /\ sig_at' = pc
    /\ UNCHANGED <<pc, keep_running, result, exit_code, click_through, setup_failures>>
    /\ UNCHANGED buffer_vars
    /\ UNCHANGED env_vars
    /\ UNCHANGED loop_hist

\* handle_sigint, delivered at any point once signal() has installed it.
\* Its printf only writes to stdout, which is not part of the state.
Sigint ==
    /\ pc \notin {"start", "done"}
    /\ keep_running' = 0
    /\ sig_at' = IF sig_at = "none" THEN pc ELSE sig_at
    /\ UNCHANGED <<pc, result, exit_code, click_through, setup_failures>>
    /\ UNCHANGED buffer_vars
    /\ UNCHANGED env_vars
    /\ UNCHANGED loop_hist

MainStep ==
    \/ Startup
    \/ OpenDisplayOk
    \/ OpenDisplayFail
    \/ FindVisualOk
    \/ FindVisualFail
    \/ XFixesOk
    \/ XFixesUnavailable
    \/ CairoSurfaceOk
    \/ CairoSurfaceFail
    \/ CairoContextOk
    \/ CairoContextFail
    \/ LoopEnter
    \/ LoopExit
    \/ QueryOk
    \/ QueryFail
    \/ Backoff
    \/ Sleep
    \/ Cleanup

Next == MainStep \/ Sigint

Spec == Init /\ [][Next]_vars

\* main() is a running process: it always takes its next step
FairSpec == Spec /\ WF_vars(MainStep)

(***************************************************************************)
(* Properties                                                              *)
(***************************************************************************)
pushes == Len(history)

Min(a, b) == IF a < b THEN a ELSE b

\* Bits 8..12 of the mask are Button1 .. Button5
HasButtonBit(mask) == (mask \div 256) % 32 # 0

ClickedOf(h) == IF HasButtonBit(h.mask) THEN 1 ELSE 0

ValidSlots == {s \in Slots : trail_points[s].valid = 1}

InLoopPcs == {"loop", "query", "backoff", "sleep"}

\* C1: capacity invariant.  Once TRAIL_LENGTH or more samples were taken every
\* slot is valid; the buffer holds min(pushes, TRAIL_LENGTH) valid entries and
\* never more; the latest sample is stored, valid, whatever its coordinates.
C1_Capacity ==
    /\ pushes >= TRAIL_LENGTH => \A s \in Slots : trail_points[s].valid = 1
    /\ Cardinality(ValidSlots) = Min(pushes, TRAIL_LENGTH)
    /\ pushes > 0 =>
          LET h == history[pushes]
              p == trail_points[(pushes - 1) % TRAIL_LENGTH]
          IN  p.valid = 1 /\ p.x = h.x /\ p.y = h.y

C1_Witness ==
    /\ pushes > TRAIL_LENGTH
    /\ \A s \in Slots : trail_points[s].valid = 1
    /\ \E s \in Slots : trail_points[s].x < 0 /\ trail_points[s].y > 4000

\* C2: overwrite ordering.  The slot draw_trail visits at age i holds the
\* (i+1)-th most recent sample; after TRAIL_LENGTH + 1 samples the first one is
\* gone, the traversal starts at s_{N+1} and ends at s2 at age N - 1.
C2_OverwriteOrdering ==
    /\ \A i \in 0 .. (Min(pushes, TRAIL_LENGTH) - 1) :
          LET p == trail_points[CurrentIndex(trail_head, i)]
              h == history[pushes - i]
          IN  p.valid = 1 /\ p.x = h.x /\ p.y = h.y /\ p.clicked = ClickedOf(h)
    /\ pushes = TRAIL_LENGTH + 1 =>
          LET it == IterateByAge(trail_points, trail_head)
          IN  /\ Len(it) = TRAIL_LENGTH
              /\ it[1].age = 0 /\ it[1].x = history[TRAIL_LENGTH + 1].x
              /\ it[1].y = history[TRAIL_LENGTH + 1].y
              /\ it[TRAIL_LENGTH].age = TRAIL_LENGTH - 1
              /\ it[TRAIL_LENGTH].x = history[2].x
              /\ it[TRAIL_LENGTH].y = history[2].y
              /\ \A s \in Slots : trail_points[s].x # history[1].x

C2_Witness == pushes = TRAIL_LENGTH + 1 /\ pc = "sleep"

\* C7: partially filled buffer.  With k < TRAIL_LENGTH samples taken the
\* traversal yields exactly those k samples, newest first, at ages 0 .. k-1, the
\* never-written slots being invalid; the three-sample scenario paints
\* (30,30) at age 0, (20,20) in the click colour at age 1, (10,10) at age 2.
C7_PartialTraversal ==
    /\ pushes < TRAIL_LENGTH =>
          /\ IterateByAge(trail_points, trail_head) =
                [k \in 1 .. pushes |->
                    [x |-> history[pushes - k + 1].x,
                     y |-> history[pushes - k + 1].y,
                     clicked |-> ClickedOf(history[pushes - k + 1]),
                     age |-> k - 1]]
          /\ \A s \in pushes .. (TRAIL_LENGTH - 1) : trail_points[s].valid = 0
    /\ history = << [x |-> 10, y |-> 10, mask |-> 0],
                    [x |-> 20, y |-> 20, mask |-> 256],
                    [x |-> 30, y |-> 30, mask |-> 0] >> =>
          surface = << [x |-> 30, y |-> 30, age |-> 0, rgb |-> <<2, 5, 10>>, alpha |-> 8 * 50],
                       [x |-> 20, y |-> 20, age |-> 1, rgb |-> <<10, 0, 0>>, alpha |-> 9 * 49],
                       [x |-> 10, y |-> 10, age |-> 2, rgb |-> <<2, 5, 10>>, alpha |-> 8 * 48] >>

C7_Witness ==
    /\ history = << [x |-> 10, y |-> 10, mask |-> 0],
                    [x |-> 20, y |-> 20, mask |-> 256],
                    [x |-> 30, y |-> 30, mask |-> 0] >>
    /\ Len(surface) = 3

PaintedAges == {surface[k].age : k \in 1 .. Len(surface)}

\* C5: cull threshold.  The sample at age i is left unpainted exactly when it is
\* invalid or 1 - i/N < 0.05 (i > 0.95 N, for N = 50: ages 48 and 49); skipped
\* slots still count toward age, so the disc of age i is the (i+1)-th most
\* recent sample.
C5_CullThreshold ==
    /\ \A i \in 0 .. (TRAIL_LENGTH - 1) :
          /\ i \in PaintedAges <=> (i < pushes /\ ~(100 * i > 95 * TRAIL_LENGTH))
          /\ i \in PaintedAges <=> (i < pushes /\ i <= 47)
    /\ \A k \in 1 .. Len(surface) :
          /\ surface[k].x = history[pushes - surface[k].age].x
          /\ surface[k].y = history[pushes - surface[k].age].y
    /\ \A k \in 1 .. (Len(surface) - 1) : surface[k].age < surface[k + 1].age

C5_Witness ==
    /\ pushes >= TRAIL_LENGTH
    /\ Len(surface) = 48
    /\ PaintedAges = 0 .. 47

\* C8: click colour.  A stored sample is clicked exactly when its query's mask
\* has a Button1..Button5 bit; a slot's flag changes only when a new sample
\* overwrites that slot; a disc has the click colour and alpha * 0.9 exactly
\* when its sample is clicked, else the trail colour and alpha * 0.8.
C8_ClickInv ==
    /\ \A i \in 0 .. (Min(pushes, TRAIL_LENGTH) - 1) :
          trail_points[(pushes - 1 - i) % TRAIL_LENGTH].clicked = 1
              <=> HasButtonBit(history[pushes - i].mask)
    /\ \A s \in Slots : trail_points[s].clicked \in {0, 1}
    /\ \A k \in 1 .. Len(surface) :
          LET d == surface[k]
              h == history[pushes - d.age]
          IN  /\ HasButtonBit(h.mask) =>
                    d.rgb = CLICK_RGB /\ d.alpha = 9 * (TRAIL_LENGTH - d.age)
              /\ ~HasButtonBit(h.mask) =>
                    d.rgb = TRAIL_RGB /\ d.alpha = 8 * (TRAIL_LENGTH - d.age)

C8_FlagStep ==
    \A s \in Slots :
        trail_points'[s].clicked # trail_points[s].clicked =>
            s = trail_head /\ pc = "query" /\ result' = 1 /\ pushes' = pushes + 1

C8_ClickColour == []C8_ClickInv /\ [][C8_FlagStep]_vars

C8_Witness ==
    /\ pushes > TRAIL_LENGTH
    /\ \E k \in 1 .. Len(surface) : surface[k].rgb = CLICK_RGB
    /\ \E k \in 1 .. Len(surface) :
          surface[k].rgb = TRAIL_RGB /\ history[pushes - surface[k].age].mask = 10

\* C10: write cursor.  trail_head stays in 0 .. N-1 and is the number of samples
\* stored mod N; a step changes no slot but the one at the old trail_head, and
\* a stored sample lands there; every index draw_trail computes is in range.
C10_HeadInv ==
    /\ trail_head \in Slots
    /\ trail_head = pushes % TRAIL_LENGTH
    /\ \A i \in 0 .. (TRAIL_LENGTH - 1) : CurrentIndex(trail_head, i) \in Slots

C10_WriteStep ==
    /\ \A s \in Slots : trail_points'[s] # trail_points[s] => s = trail_head
    /\ pushes' = pushes + 1 =>
          /\ trail_points'[trail_head] =
                [x |-> ptr.x, y |-> ptr.y, valid |-> 1, clicked |-> ClickedOf(ptr)]
          /\ trail_head' = (trail_head + 1) % TRAIL_LENGTH

C10_WriteCursor == []C10_HeadInv /\ [][C10_WriteStep]_vars

C10_Witness == pushes > TRAIL_LENGTH /\ trail_head = 1 /\ fails = 2

BufferAtIterStart ==
    trail_points = iter_start.tp /\ trail_head = iter_start.head

\* C3: a failed pointer query is not fatal and writes nothing.  After a failed
\* query the buffer and head are those of the top of the iteration; the step
\* that fails leaves keep_running alone; the loop is only ever left with the
\* flag cleared by the handler; and the loop comes back to the query.
C3_FailInv ==
    /\ result = 0 => BufferAtIterStart
    /\ (pc \in {"cleanup", "done"} /\ result = 0) =>
          keep_running = 0 /\ sig_at # "none" /\ exit_code # 1

C3_FailStep ==
    (pc = "query" /\ pc' = "backoff") =>
        /\ keep_running' = keep_running
        /\ trail_points' = trail_points
        /\ trail_head' = trail_head
        /\ surface' = surface

C3_QueryFailure ==
    /\ []C3_FailInv
    /\ [][C3_FailStep]_vars
    /\ (pc = "backoff") ~> (pc = "query" \/ keep_running = 0 \/ iters >= MaxIters)

C3_Witness ==
    /\ pc = "query"
    /\ result = 0
    /\ keep_running = 1
    /\ pushes >= TRAIL_LENGTH
    /\ fails = 2

\* C9 as stated: every completed iteration has pushed exactly one sample.
C9_OneWritePerIteration ==
    pc = "loop" => pushes = iters /\ trail_head = iters % TRAIL_LENGTH

\* C9 as amended: an iteration writes once when its query succeeds and not at
\* all when it fails, so after m iterations of which f failed, m - f samples
\* have been pushed.
C9_OneWritePerSuccessfulIteration ==
    /\ pc = "loop" =>
          /\ pushes = iters - fails
          /\ trail_head = (iters - fails) % TRAIL_LENGTH
          /\ Cardinality(ValidSlots) = Min(iters - fails, TRAIL_LENGTH)
    /\ (pc = "sleep" /\ result = 1) =>
          /\ {s \in Slots : trail_points[s] # iter_start.tp[s]} \subseteq {iter_start.head}
          /\ trail_points[iter_start.head].valid = 1
          /\ trail_head = (iter_start.head + 1) % TRAIL_LENGTH
    /\ (pc \in {"backoff", "sleep"} /\ result = 0) => BufferAtIterStart

C9_Witness ==
    /\ pc = "loop"
    /\ fails = 2
    /\ iters > TRAIL_LENGTH
    /\ pushes = iters - 2

\* C6 as stated: after any setup failure, XFixes included, the main loop is
\* never started, no sample is taken, the buffer is never written, and the
\* process ends with a non-zero status.
C6_EverySetupFailureFatal ==
    setup_failures # {} =>
        /\ pc \notin InLoopPcs
        /\ pc = "done" => exit_code # 0
        /\ history = <<>>
        /\ trail_points = ZeroTrail

\* C6 as amended: a failure to open the display, find the visual, or create the
\* Cairo surface or context ends the process with status 1 before the loop,
\* with no sample taken and the buffer never written; a missing XFixes
\* extension only leaves the overlay without click-through, and setup goes on.
C6_FatalSetupFailures ==
    /\ (setup_failures \ {"xfixes"}) # {} =>
          /\ pc = "done"
          /\ exit_code = 1
          /\ history = <<>>
          /\ result = 0 - 1
          /\ trail_points = ZeroTrail
          /\ trail_head = 0
          /\ surface = <<>>
    /\ exit_code = 1 => (setup_failures \ {"xfixes"}) # {}
    /\ "xfixes" \in setup_failures => ~click_through
    /\ (setup_failures = {"xfixes"} /\ pc = "cairo_context") => exit_code = 0 - 1

C6_Witness == setup_failures = {"xfixes", "context"} /\ pc = "done" /\ exit_code = 1

SigInLoop == sig_at \in InLoopPcs

\* C4 as stated: once the handler clears the flag during an iteration no new
\* body starts, the process reaches cleanup and returns 0, and the time slept
\* between the flag being cleared and the loop ending is at most one
\* UPDATE_INTERVAL on every path.
C4_OneIntervalInv ==
    /\ sig_at # "none" => keep_running = 0
    /\ (SigInLoop /\ pc = "done") => exit_code = 0
    /\ (SigInLoop /\ pc \in {"cleanup", "done"}) => delay <= UPDATE_INTERVAL

C4_NoNewBody ==
    /\ (keep_running = 0 /\ pc = "loop") => pc' \in {"loop", "cleanup"}
    /\ (keep_running = 0 /\ pc # "loop") => pc' # "query"

C4_BoundedByOneInterval ==
    /\ []C4_OneIntervalInv
    /\ [][C4_NoNewBody]_vars
    /\ SigInLoop ~> (pc = "done" /\ exit_code = 0)

\* C4 as amended: the same, but the time slept is at most one UPDATE_INTERVAL
\* when the last query succeeded or the flag was cleared after the backoff
\* sleep began, and at most the 100000 us backoff plus one UPDATE_INTERVAL when
\* the flag is cleared in an iteration whose query fails, before its backoff.
C4_AmendedInv ==
    /\ sig_at # "none" => keep_running = 0
    /\ (SigInLoop /\ pc = "done") => exit_code = 0
    /\ (SigInLoop /\ pc \in {"cleanup", "done"}) =>
          delay <= (IF result = 0 /\ sig_at \in {"query", "backoff"}
                    THEN BACKOFF_INTERVAL + UPDATE_INTERVAL
                    ELSE UPDATE_INTERVAL)

C4_SignalTermination ==
    /\ []C4_AmendedInv
    /\ [][C4_NoNewBody]_vars
    /\ SigInLoop ~> (pc = "done" /\ exit_code = 0)

C4_Witness ==
    /\ pc = "done"
    /\ exit_code = 0
    /\ sig_at = "backoff"
    /\ delay = BACKOFF_INTERVAL + UPDATE_INTERVAL
    /\ pushes > 0

====
